---- MODULE Spec2Model ----
(***************************************************************************)
(* Model of TBDownload.save_timeseries / TBDownload.get_timeseries         *)
(* (src/tb_download/client.py; src/tb-download.py holds the same code).    *)
(*                                                                         *)
(* Time is counted in hours from an arbitrary origin; the remote side is   *)
(* asked in epoch milliseconds (ToMs).  One behaviour of the model is one  *)
(* call of save_timeseries: the keys request, then one step per iteration  *)
(* of the chunk loop, each step with the outcome of its fetch request.     *)
(***************************************************************************)
EXTENDS Integers, Sequences, FiniteSets, TLC

VARIABLES
    pc,               \* position of the call: "keys", "loop", "done", "exit", "raised"
    start_date,       \* the loop cursor (parameter start_date, reassigned at line 249)
    end_date,         \* parameter end_date
    orig_start_date,  \* start_date as passed by the caller (line 234)
    keys,             \* the device's signal keys, as the keys request listed them
    append,           \* the write-mode / header flag (line 241)
    file,             \* the file at `filename`
    file0,            \* the file at `filename` when the call began
    windows,          \* the fetch requests issued so far, with their outcomes
    sort_union,       \* whether the installed pandas sorts a non-aligned outer-join index
    body,             \* r.json() of a timeseries request, as get_timeseries reads it
    frame,            \* the frame get_timeseries returned for it
    dev,              \* position in device_list of the device the driver is at
    files             \* the files of the devices of device_list, as the driver left them

vars == <<pc, start_date, end_date, orig_start_date, keys, append, file, file0,
          windows, sort_union, body, frame, dev, files>>

(* what save_timeseries does not touch: the state of a lone get_timeseries
   call and of the driver's device loop *)
outer == <<body, frame, dev, files>>

----------------------------------------------------------------------------
(* Bounds of the model *)

MaxStart == 2
MaxEnd == 6

(* delta = dt.timedelta(hours=3), in hours *)
delta == 3

(* int(x.timestamp() * 1000): hours to epoch milliseconds *)
ToMs(t) == t * 3600 * 1000

----------------------------------------------------------------------------
(* Sequences helpers *)

Range(s) == {s[i] : i \in 1..Len(s)}

Last(s) == s[Len(s)]

RECURSIVE Insert(_, _)
Insert(x, s) ==
    IF s = <<>> THEN <<x>>
    ELSE IF x < Head(s) THEN <<x>> \o s
    ELSE <<Head(s)>> \o Insert(x, Tail(s))

(* Index.sort_values as used by DataFrame.sort_index: ascending *)
RECURSIVE sort_index(_)
sort_index(s) == IF s = <<>> THEN <<>> ELSE Insert(Head(s), sort_index(Tail(s)))

RECURSIVE SetToSortedSeq(_)
SetToSortedSeq(S) ==
    IF S = {} THEN <<>>
    ELSE LET m == CHOOSE x \in S : \A y \in S : x <= y
         IN <<m>> \o SetToSortedSeq(S \ {m})

RECURSIVE AppendNew(_, _)
AppendNew(s, t) ==
    IF t = <<>> THEN s
    ELSE IF Head(t) \in Range(s) THEN AppendNew(s, Tail(t))
    ELSE AppendNew(Append(s, Head(t)), Tail(t))

RECURSIVE AppendAllNew(_, _)
AppendAllNew(s, ixs) ==
    IF ixs = <<>> THEN s ELSE AppendAllNew(AppendNew(s, Head(ixs)), Tail(ixs))

RECURSIVE Flatten(_)
Flatten(ss) == IF ss = <<>> THEN <<>> ELSE Head(ss) \o Flatten(Tail(ss))

----------------------------------------------------------------------------
(* The remote side *)

(* The signal key lists the keys request can return (r.json(), line 227) *)
KeyLists == {<<>>, <<"b">>, <<"b", "a">>}

(* The key orders a timeseries response can carry: a JSON object keeps the
   order in which the remote side wrote its keys; "x" is a key that was not
   asked for *)
RespKeyOrders == {<<"b">>, <<"a", "b">>, <<"b", "a">>, <<"a", "x", "b">>}

(* The series of one key in the window [startTs, endTs]: a sample at the
   end of the window, with or without one at its start, newest first (the
   order the telemetry endpoint answers in), one sample per timestamp *)
SeriesIn(startTs, endTs) == {<<endTs>>, <<endTs, startTs>>}

(* The non-empty bodies of a timeseries response for a window: an ordered
   object  key -> list of {ts, value}  *)
Bodies(startTs, endTs) ==
    UNION { { [i \in 1..Len(ko) |-> [key |-> ko[i], ts |-> f[i]]] :
                f \in [1..Len(ko) -> SeriesIn(startTs, endTs)] } :
            ko \in RespKeyOrders }

(* What requests.get + raise_for_status can give for a timeseries request:
   a RequestException (ok = FALSE), an empty body, or a body with data *)
Responses(startTs, endTs) ==
    {[ok |-> FALSE, json |-> <<>>], [ok |-> TRUE, json |-> <<>>]}
      \cup {[ok |-> TRUE, json |-> b] : b \in Bodies(startTs, endTs)}

----------------------------------------------------------------------------
(* pandas: the frames of get_timeseries and DataFrame.to_csv *)

(* return None (line 198); a frame built from data has at least one column *)
None == [columns |-> <<>>, index |-> <<>>, has |-> <<>>]

(* union_indexes of pd.concat(join="outer", axis=1) over the per-key indexes:
   aligned indexes are kept as they are; otherwise the union is sorted
   (pandas 1.x, integer indexes) or kept in first-seen order (pandas 2.x,
   sort=False) *)
union_indexes(ixs) ==
    IF \A i \in 1..Len(ixs) : ixs[i] = ixs[1] THEN ixs[1]
    ELSE IF sort_union
         THEN SetToSortedSeq(UNION {Range(ixs[i]) : i \in 1..Len(ixs)})
         ELSE AppendAllNew(<<>>, ixs)

(* lines 200-207: one frame per key of the response, indexed by "ts" and
   sorted by index, then joined side by side with an outer join.
   has[i] is the set of timestamps where column i holds a value *)
concat_frames(json) ==
    LET dfs == [i \in 1..Len(json) |->
                   [column |-> json[i].key, index |-> sort_index(json[i].ts)]]
    IN [columns |-> [i \in 1..Len(dfs) |-> dfs[i].column],
        index   |-> union_indexes([i \in 1..Len(dfs) |-> dfs[i].index]),
        has     |-> [i \in 1..Len(dfs) |-> Range(dfs[i].index)]]

(* get_timeseries, lines 196-207, on the body of a successful response *)
get_timeseries(json) == IF json = <<>> THEN None ELSE concat_frames(json)

(* a selection that fills the labels df lacks with empty columns *)
RaisesKeyError_Reindex(df, columns) == FALSE

(* to_csv(columns=...) selects df.loc[:, columns] before it opens the file:
   a label that is no column of df raises KeyError *)
RaisesKeyError(df, columns) ==
    \E j \in 1..Len(columns) : columns[j] \notin Range(df.columns)

(* the header line of to_csv: the index name "ts" (set_index, line 203),
   then the selected columns *)
HeaderLine(columns) == [kind |-> "header", ts |-> 0, cells |-> <<"ts">> \o columns]

(* whether frame df holds a value in column k at timestamp t *)
HasValue(df, k, t) ==
    \E i \in 1..Len(df.columns) : df.columns[i] = k /\ t \in df.has[i]

(* one data line: the timestamp, then for each selected column its value at
   that timestamp (written here as the column's key) or "" where it has none *)
RowLine(df, columns, t) ==
    [kind  |-> "row",
     ts    |-> t,
     cells |-> [j \in 1..Len(columns) |->
                  IF HasValue(df, columns[j], t) THEN columns[j] ELSE ""]]

RowLines(df, columns) ==
    [n \in 1..Len(df.index) |-> RowLine(df, columns, df.index[n])]

(* to_csv without columns=: every column of df, in df's order *)
CsvLines_AllColumns(df, columns, header) ==
    (IF header THEN <<HeaderLine(df.columns)>> ELSE <<>>) \o RowLines(df, df.columns)

(* the text df.to_csv(columns=columns, header=header) writes *)
CsvLines(df, columns, header) ==
    (IF header THEN <<HeaderLine(columns)>> ELSE <<>>) \o RowLines(df, columns)

(* open(filename, mode) + write: "w" truncates, "a" appends (creating the
   file when there is none) *)
WriteFile(f, mode, lines) ==
    IF mode = "w" THEN [exists |-> TRUE, lines |-> lines]
    ELSE [exists |-> TRUE, lines |-> f.lines \o lines]

(* df.to_csv(filename, mode=..., columns=keys, header=...), line 258 *)
to_csv(f, df, mode, columns, header) ==
    WriteFile(f, mode, CsvLines(df, columns, header))

NoFile == [exists |-> FALSE, lines |-> <<>>]

(* a file left at `filename` by an earlier run *)
OldFile == [exists |-> TRUE, lines |-> <<[kind |-> "old", ts |-> 0, cells |-> <<>>]>>]

----------------------------------------------------------------------------
(* save_timeseries *)

(* a loop that stops when the cursor reaches the end *)
LoopCond_Strict(s, e) == s < e

(* a loop whose body runs before its first test *)
LoopCond_AtLeastOnce(s, e) == s <= e \/ windows = <<>>

(* the loop test, line 245 *)
LoopCond(s, e) == s <= e

(* a window end that is cut at the requested end *)
IntervalEnd_Clamped(interval_start) ==
    IF interval_start + delta > end_date THEN end_date ELSE interval_start + delta

(* interval_end = interval_start + delta, line 247 *)
IntervalEnd(interval_start) == interval_start + delta

(* a cursor that steps past the end of the window it leaves *)
NextStart_PastEnd(interval_end) == interval_end + 1

(* a cursor that is set back to the start of the window it leaves *)
NextStart_Stuck(interval_end) == interval_end - delta

(* start_date = interval_end, line 249 *)
NextStart(interval_end) == interval_end

(* mode="a" if append else "w", line 258 *)
Mode(a) == IF a THEN "a" ELSE "w"

(* a header on every write *)
Header_Always(a) == TRUE

(* header=not append, line 258 *)
Header(a) == ~a

(* append = True, line 260 *)
AppendAfterWrite(a) == TRUE

(* no test for None before the write *)
Skips_Never(df) == FALSE

(* if df is None: continue, lines 255-256 *)
Skips(df) == df = None

(* no test for an empty key list *)
NothingToExport_Never(ks) == FALSE

(* if not keys: return, lines 228-230 *)
NothingToExport(ks) == ks = <<>>

(* a request error that is swallowed: the body is then read as empty *)
RequestFailed_Swallowed(r) == FALSE

(* except requests.exceptions.RequestException, line 69 *)
RequestFailed(r) == ~r.ok

(* The entry of one fetch request in the request log: the window asked for,
   what the remote side answered (a failure, an empty body, or data under
   the listed keys) and the data lines the iteration wrote for it *)
Window(s, e, r, rows) ==
    [start  |-> s,
     end    |-> e,
     answer |-> IF ~r.ok THEN "failed" ELSE IF r.json = <<>> THEN "nodata" ELSE "data",
     keys   |-> [i \in 1..Len(r.json) |-> r.json[i].key],
     rows   |-> rows]

Init ==
    /\ pc = "keys"
    /\ start_date \in 0..MaxStart
    /\ end_date \in 0..MaxEnd
    /\ orig_start_date = start_date
    /\ keys = <<>>
    /\ append = FALSE
    /\ file0 \in {NoFile, OldFile}
    /\ file = file0
    /\ windows = <<>>
    /\ sort_union \in BOOLEAN
    /\ body = <<>>
    /\ frame = None
    /\ dev = 1
    /\ files = <<file0>>

(* lines 224-225 with a RequestException: _get prints it and calls sys.exit(1) *)
KeysRequestFails ==
    /\ pc = "keys"
    /\ pc' = "exit"
    /\ UNCHANGED <<start_date, end_date, orig_start_date, keys, append, file,
                   file0, windows, sort_union>>
    /\ UNCHANGED outer

(* lines 224-241: the keys request answers ks; no keys: return; otherwise
   set up the loop *)
ListKeys(ks) ==
    /\ pc = "keys"
    /\ keys' = ks
    /\ IF NothingToExport(ks)
       THEN /\ pc' = "done"
            /\ UNCHANGED <<orig_start_date, append>>
       ELSE /\ pc' = "loop"
            /\ orig_start_date' = start_date
            /\ append' = FALSE
    /\ UNCHANGED <<start_date, end_date, file, file0, windows, sort_union>>
    /\ UNCHANGED outer

(* lines 245-262: one iteration of the chunk loop, r being what the fetch
   request of this iteration gives *)
Iteration(r) ==
    /\ pc = "loop"
    /\ LoopCond(start_date, end_date)
    /\ LET interval_start == start_date
           interval_end   == IntervalEnd(interval_start)
           df             == get_timeseries(r.json)
       IN /\ start_date' = NextStart(interval_end)
          /\ IF RequestFailed(r)
             THEN \* _get: print_exception, sys.exit(1)
                  /\ pc' = "exit"
                  /\ windows' = Append(windows, Window(interval_start, interval_end, r, <<>>))
                  /\ UNCHANGED <<append, file>>
             ELSE IF Skips(df)
             THEN /\ pc' = "loop"
                  /\ windows' = Append(windows, Window(interval_start, interval_end, r, <<>>))
                  /\ UNCHANGED <<append, file>>
             ELSE IF RaisesKeyError(df, keys)
             THEN \* to_csv raises before the file is opened; nothing catches it
                  /\ pc' = "raised"
                  /\ windows' = Append(windows, Window(interval_start, interval_end, r, <<>>))
                  /\ UNCHANGED <<append, file>>
             ELSE /\ pc' = "loop"
                  /\ file' = to_csv(file, df, Mode(append), keys, Header(append))
                  /\ append' = AppendAfterWrite(append)
                  /\ windows' = Append(windows, Window(interval_start, interval_end, r,
                                                      RowLines(df, keys)))
    /\ UNCHANGED <<end_date, orig_start_date, keys, file0, sort_union>>
    /\ UNCHANGED outer

(* the loop test fails: line 264, and the call returns *)
LoopExit ==
    /\ pc = "loop"
    /\ ~LoopCond(start_date, end_date)
    /\ pc' = "done"
    /\ UNCHANGED <<start_date, end_date, orig_start_date, keys, append, file,
                   file0, windows, sort_union>>
    /\ UNCHANGED outer

Next ==
    \/ KeysRequestFails
    \/ \E ks \in KeyLists : ListKeys(ks)
    \/ \E r \in Responses(ToMs(start_date), ToMs(IntervalEnd(start_date))) : Iteration(r)
    \/ LoopExit

Spec == Init /\ [][Next]_vars

----------------------------------------------------------------------------
(* get_timeseries on its own: one call on one response body *)

MaxSamples == 2

(* the timestamps the samples of a body can carry *)
JoinTs == {100, 200, 300}

(* the series of one key: up to MaxSamples samples, one per timestamp, in
   any order *)
JoinSeries ==
    {q \in UNION {[1..n -> JoinTs] : n \in 1..MaxSamples} :
        \A i, j \in 1..Len(q) : i # j => q[i] # q[j]}

(* the key orders of a body *)
JoinKeyOrders == {<<"a">>, <<"a", "b">>, <<"b", "a">>}

(* the bodies get_timeseries is called on: empty, or key -> series *)
JoinBodies ==
    {<<>>} \cup
    UNION { { [i \in 1..Len(ko) |-> [key |-> ko[i], ts |-> f[i]]] :
                f \in [1..Len(ko) -> JoinSeries] } :
            ko \in JoinKeyOrders }

InitJoin ==
    /\ pc = "get_timeseries"
    /\ body \in JoinBodies
    /\ frame = None
    /\ sort_union \in BOOLEAN
    /\ start_date = 0
    /\ end_date = 0
    /\ orig_start_date = 0
    /\ keys = <<>>
    /\ append = FALSE
    /\ file0 = NoFile
    /\ file = NoFile
    /\ windows = <<>>
    /\ dev = 1
    /\ files = <<NoFile>>

(* lines 196-207: the frame built from r.json() *)
GetTimeseries ==
    /\ pc = "get_timeseries"
    /\ frame' = get_timeseries(body)
    /\ pc' = "returned"
    /\ UNCHANGED <<start_date, end_date, orig_start_date, keys, append, file,
                   file0, windows, sort_union, body, dev, files>>

NextJoin == GetTimeseries

SpecJoin == InitJoin /\ [][NextJoin]_vars

----------------------------------------------------------------------------
(* The driver: the device loop of tb-download.py, lines 390-409.  Device
   names are unique on the remote side, so each device has a file of its
   own; files[d] is the file of the d-th device of device_list *)

MaxDevices == 2

(* the files found at the devices' paths when the run begins *)
DeviceFiles == UNION {[1..n -> {NoFile, OldFile}] : n \in 0..MaxDevices}

InitRun ==
    /\ pc = "driver"
    /\ dev = 1
    /\ files \in DeviceFiles
    /\ orig_start_date = 0
    /\ start_date = 0
    /\ end_date \in {0, delta - 1}   \* a range of one chunk per device
    /\ keys = <<>>
    /\ append = FALSE
    /\ file0 = NoFile
    /\ file = NoFile
    /\ windows = <<>>
    /\ sort_union \in BOOLEAN
    /\ body = <<>>
    /\ frame = None

(* a driver that catches SystemExit and goes on with the next device *)
Returned_OrExited(p) == p \in {"done", "exit"}

(* client.save_timeseries(...) returned, line 408: sys.exit and exceptions
   are not caught by the driver *)
Returned(p) == p = "done"

(* lines 390-408, one pass of the for loop up to the call: dir_exists is
   os.path.exists(args.output_dir), yes is what Confirm.ask or --force gives.
   The directory can only be missing while no device file exists and no
   earlier pass has created it *)
ForDevice(dir_exists, yes) ==
    /\ pc = "driver"
    /\ dev <= Len(files)
    /\ ~dir_exists => (dev = 1 /\ \A d \in 1..Len(files) : ~files[d].exists)
    /\ IF ~dir_exists /\ ~yes
       THEN \* 'Not sure where to save csv files, quitting.'; exit()
            /\ pc' = "quit"
            /\ UNCHANGED <<dev, start_date, keys, append, file, file0, windows>>
       ELSE IF files[dev].exists /\ ~yes
       THEN \* 'skipping device'; continue
            /\ dev' = dev + 1
            /\ UNCHANGED <<pc, start_date, keys, append, file, file0, windows>>
       ELSE \* client.save_timeseries(dev, start_date, end_date, filename=filename)
            /\ pc' = "keys"
            /\ start_date' = orig_start_date
            /\ keys' = <<>>
            /\ append' = FALSE
            /\ file' = files[dev]
            /\ file0' = files[dev]
            /\ windows' = <<>>
            /\ UNCHANGED dev
    /\ UNCHANGED <<end_date, orig_start_date, sort_union, body, frame, files>>

(* the call returned: its locals are gone, the file stays as the call left
   it, and the for loop goes to the next device *)
DeviceReturns ==
    /\ Returned(pc)
    /\ files' = [files EXCEPT ![dev] = file]
    /\ dev' = dev + 1
    /\ pc' = "driver"
    /\ start_date' = orig_start_date
    /\ keys' = <<>>
    /\ append' = FALSE
    /\ file' = NoFile
    /\ file0' = NoFile
    /\ windows' = <<>>
    /\ UNCHANGED <<end_date, orig_start_date, sort_union, body, frame>>

(* device_list is exhausted: rule(), line 409, and the script ends *)
RunEnds ==
    /\ pc = "driver"
    /\ dev > Len(files)
    /\ pc' = "finished"
    /\ UNCHANGED <<start_date, end_date, orig_start_date, keys, append, file,
                   file0, windows, sort_union, body, frame, dev, files>>

NextRun ==
    \/ \E dir_exists, yes \in BOOLEAN : ForDevice(dir_exists, yes)
    \/ KeysRequestFails
    \/ \E ks \in KeyLists : ListKeys(ks)
    \/ \E r \in Responses(ToMs(start_date), ToMs(IntervalEnd(start_date))) : Iteration(r)
    \/ LoopExit
    \/ DeviceReturns
    \/ RunEnds

SpecRun == InitRun /\ [][NextRun]_vars

----------------------------------------------------------------------------
(* Properties *)

CeilDiv(a, b) == (a + b - 1) \div b

(* the loop ran to its end: the call returned and the device had keys *)
LoopCompleted == pc = "done" /\ keys # <<>>

(* C1, as stated: for start <= end the loop issues ceil((end-start)/delta)
   fetch windows, or 1 window when end = start *)
C1_CeilCount ==
    (LoopCompleted /\ orig_start_date <= end_date) =>
        Len(windows) = IF end_date = orig_start_date THEN 1
                       ELSE CeilDiv(end_date - orig_start_date, delta)

(* C1, amended: for start <= end the loop issues floor((end-start)/delta) + 1
   fetch windows (one more than the ceiling when end-start is a positive
   multiple of delta); while it runs it has issued no more than that *)
C1_FloorPlusOneCount ==
    (keys # <<>> /\ orig_start_date <= end_date) =>
        /\ Len(windows) <= (end_date - orig_start_date) \div delta + 1
        /\ pc = "done" => Len(windows) = (end_date - orig_start_date) \div delta + 1

(* a completed loop over a span that is a positive multiple of delta *)
C1_Witness ==
    /\ LoopCompleted
    /\ end_date - orig_start_date = 2 * delta
    /\ Len(windows) = 3

(* C2: the fetch windows are contiguous and of fixed size: the first starts
   at start, each ends delta after it starts, each later one starts where
   the one before it ended, whatever the fetches answered *)
C2_WindowsContiguous ==
    /\ windows # <<>> => windows[1].start = orig_start_date
    /\ \A i \in 1..Len(windows) : windows[i].end = windows[i].start + delta
    /\ \A i \in 1..(Len(windows) - 1) : windows[i + 1].start = windows[i].end
    /\ pc = "loop" =>
          start_date = IF windows = <<>> THEN orig_start_date ELSE Last(windows).end

(* three windows, after an answer without data and an answer with data *)
C2_Witness ==
    /\ Len(windows) = 3
    /\ windows[1].answer = "nodata"
    /\ windows[2].rows # <<>>

(* C3: called with start > end, save_timeseries issues no fetch request,
   leaves the file as it was, raises nothing of its own and, once the keys
   request has answered, is at its return (an exit can only come from the
   keys request failing) *)
C3_InvalidWindowNoOp ==
    orig_start_date > end_date =>
        /\ windows = <<>>
        /\ file = file0
        /\ pc # "raised"
        /\ pc = "exit" => keys = <<>>
        /\ pc = "loop" => start_date > end_date

(* start > end, keys listed, an older file in place, and the call returned *)
C3_Witness ==
    /\ orig_start_date > end_date
    /\ keys # <<>>
    /\ file0 = OldFile
    /\ pc = "done"

(* the step is an iteration whose fetch was answered with an empty body *)
NoDataStep ==
    /\ Len(windows') = Len(windows) + 1
    /\ Last(windows').answer = "nodata"

(* C4: an iteration whose fetch returns "no data" writes nothing: file and
   append flag are unchanged, the loop goes on, and the next window starts
   delta after the start of the skipped one *)
C4_NoDataNoWrite ==
    /\ [][NoDataStep =>
            /\ file' = file
            /\ append' = append
            /\ pc' = "loop"
            /\ start_date' = Last(windows').start + delta]_vars
    /\ [](\A i \in 1..(Len(windows) - 1) :
             windows[i].answer = "nodata" =>
                 windows[i + 1].start = windows[i].start + delta)

(* a skipped chunk after a written one, followed by a further window *)
C4_Witness ==
    /\ Len(windows) = 3
    /\ windows[1].rows # <<>>
    /\ windows[2].answer = "nodata"
    /\ append

(* the step is an iteration that wrote its chunk *)
WriteStep ==
    /\ Len(windows') = Len(windows) + 1
    /\ Last(windows').rows # <<>>

(* C5: the first write of a call truncates and emits the header, every later
   write appends without one; so once anything was written the file holds
   one header line, and it is the first line *)
C5_OneHeaderFirst ==
    /\ [][WriteStep =>
            /\ append'
            /\ file'.exists
            /\ file'.lines =
                 IF append THEN file.lines \o Last(windows').rows
                 ELSE <<HeaderLine(keys)>> \o Last(windows').rows]_vars
    /\ [](append =>
            /\ file.exists
            /\ file.lines[1] = HeaderLine(keys)
            /\ \A n \in 2..Len(file.lines) : file.lines[n].kind = "row")
    /\ [](~append => file = file0)

(* two chunks written over an older file, after a first chunk without data *)
C5_Witness ==
    /\ file0 = OldFile
    /\ Len(windows) = 3
    /\ windows[1].answer = "nodata"
    /\ windows[2].rows # <<>>
    /\ windows[3].rows # <<>>
    /\ append

(* the data lines of the chunks written before the k-th fetch *)
RowsBefore(k) == Flatten([i \in 1..(k - 1) |-> windows[i].rows])

(* C6, as stated: a transport failure on the fetch of chunk k ends the call
   with that fetch as its last, and the file holds exactly the header plus
   the rows of the chunks written before k *)
C6_HeaderPlusRows ==
    \A k \in 1..Len(windows) :
        windows[k].answer = "failed" =>
            /\ k = Len(windows)
            /\ pc = "exit"
            /\ file.exists
            /\ file.lines = <<HeaderLine(keys)>> \o RowsBefore(k)

(* C6, amended: a transport failure on the fetch of chunk k ends the call at
   once (exit, no later fetch, no step after it); the file holds exactly the
   header plus the rows of the chunks written before k when at least one was
   written, and is what it was before the call when none was *)
C6_FailureEndsExport ==
    /\ [](\A k \in 1..Len(windows) :
            windows[k].answer = "failed" =>
                /\ k = Len(windows)
                /\ pc = "exit"
                /\ file = IF RowsBefore(k) # <<>>
                          THEN [exists |-> TRUE,
                                lines  |-> <<HeaderLine(keys)>> \o RowsBefore(k)]
                          ELSE file0)
    /\ [][pc # "exit"]_vars

(* a failure on the second of three chunks, the first one written *)
C6_Witness ==
    /\ end_date - orig_start_date >= 2 * delta
    /\ Len(windows) = 2
    /\ windows[1].rows # <<>>
    /\ windows[2].answer = "failed"
    /\ pc = "exit"

(* the k-th fetch was answered with data that lacks a requested key *)
Drift(k) ==
    /\ windows[k].answer = "data"
    /\ \E j \in 1..Len(keys) : keys[j] \notin Range(windows[k].keys)

(* C7: data that lacks a requested key ends the call at that chunk: nothing
   is written for it, the append flag and the file stay as they were, and no
   later chunk is fetched *)
C7_SchemaDriftFatal ==
    /\ [](\A k \in 1..Len(windows) :
            Drift(k) => /\ k = Len(windows)
                        /\ pc = "raised"
                        /\ windows[k].rows = <<>>)
    /\ [][(Len(windows') = Len(windows) + 1 /\ Drift(Len(windows))')
            => (file' = file /\ append' = append)]_vars
    /\ [][pc # "raised"]_vars

(* a second chunk lacking a key, after a written first one, chunks pending *)
C7_Witness ==
    /\ Len(windows) = 2
    /\ windows[1].rows # <<>>
    /\ Drift(2)
    /\ start_date <= end_date
    /\ pc = "raised"

(* C8: when the keys request lists no key, the call returns normally, issues
   no fetch request and leaves the file as it was *)
C8_NoKeysNothingToExport ==
    /\ [][(pc = "keys" /\ pc' \notin {"keys", "exit"} /\ keys' = <<>>)
            => (pc' = "done" /\ file' = file /\ windows' = <<>>)]_vars
    /\ []((pc = "done" /\ keys = <<>>) => (windows = <<>> /\ file = file0))
    /\ [][pc # "done"]_vars

(* no keys for a window that is not empty, an older file in place *)
C8_Witness ==
    /\ pc = "done"
    /\ keys = <<>>
    /\ orig_start_date <= end_date
    /\ file0 = OldFile

(* a line carries exactly the listed keys' columns, in the listed order *)
LineHasKeyColumns(line) ==
    IF line.kind = "header" THEN line.cells = <<"ts">> \o keys
    ELSE /\ Len(line.cells) = Len(keys)
         /\ \A j \in 1..Len(keys) : line.cells[j] \in {keys[j], ""}

(* C9: every write carries exactly the listed keys' columns in the listed
   order, whatever order and extra keys the answer had: the header is the
   index name followed by the keys, and each data line has one cell per
   key, holding that key's value or nothing *)
C9_ColumnsAreKeysInOrder ==
    append => \A n \in 1..Len(file.lines) : LineHasKeyColumns(file.lines[n])

(* a chunk written from an answer in another key order with an extra key *)
C9_Witness ==
    /\ keys = <<"b", "a">>
    /\ append
    /\ \E k \in 1..Len(windows) :
          windows[k].keys = <<"a", "x", "b">> /\ windows[k].rows # <<>>

(* the data lines of the file *)
DataLines == SelectSeq(file.lines, LAMBDA line : line.kind = "row")

(* C10: with every fetch answering only samples inside the window asked for
   (Responses), the data lines of the file are in ascending timestamp order
   with no timestamp in two lines.  Stated for the pandas that sorts the
   joined index, the build most favourable to the claim *)
C10_RowsAscendingUnique ==
    sort_union =>
        \A m, n \in 1..Len(DataLines) : m < n => DataLines[m].ts < DataLines[n].ts

(* "one day at the time" (docstring of save_timeseries), in hours *)
HoursPerDay == 24

(* C11: the interval is downloaded one day at a time: every fetch window
   spans exactly one day *)
C11_WindowsSpanOneDay ==
    \A i \in 1..Len(windows) : windows[i].end - windows[i].start = HoursPerDay

(* C12: iteration is bounded by the start of a chunk, not its end: every
   fetched window starts at or before end and ends delta after its start,
   unclamped; the loop is left only with the cursor past end, so the last
   window of a completed loop ends past end *)
C12_BoundedByChunkStart ==
    /\ \A i \in 1..Len(windows) :
          /\ windows[i].start <= end_date
          /\ windows[i].end = windows[i].start + delta
    /\ LoopCompleted => start_date > end_date
    /\ (LoopCompleted /\ windows # <<>>) =>
          /\ Last(windows).start <= end_date
          /\ Last(windows).end > end_date

(* a completed loop whose last window starts exactly at end *)
C12_Witness ==
    /\ LoopCompleted
    /\ Len(windows) = 3
    /\ Last(windows).start = end_date
    /\ Last(windows).end = end_date + delta

(* the call is over: it returned, exited or raised *)
Terminated == pc \in {"done", "exit", "raised"}

(* A call keeps running until it is over: the program is sequential and
   every request it waits for returns *)
FairSpec == Spec /\ WF_vars(Next)

(* The calls that begin with no file at the path: the file's former content
   takes no part in the control flow of the loop *)
InitNoFile == Init /\ file0 = NoFile

FairSpecNoFile == InitNoFile /\ [][Next]_vars /\ WF_vars(Next)

(* C14: whatever the fetches answer, every iteration moves the cursor forward
   by exactly delta, and the call is over after finitely many fetches *)
C14_LoopTerminates ==
    /\ [][Len(windows') = Len(windows) + 1 => start_date' = start_date + delta]_vars
    /\ [][start_date' >= start_date]_vars
    /\ <>Terminated

(* a loop that came to its end through chunks with and without data *)
C14_Witness ==
    /\ LoopCompleted
    /\ Len(windows) = 3
    /\ windows[1].answer = "nodata"
    /\ windows[2].answer = "data"
    /\ windows[3].answer = "nodata"

(* every fetch so far was answered with an empty body *)
AllNoData == \A i \in 1..Len(windows) : windows[i].answer = "nodata"

(* C15: when every chunk returns "no data" the file is never opened: a file
   already at that path keeps its contents, no file is created, and the
   call runs to its normal return *)
C15_AllNoDataFileUntouched ==
    AllNoData =>
        /\ file = file0
        /\ ~append
        /\ pc \in {"keys", "loop", "done"} \/ (pc = "exit" /\ keys = <<>>)

(* three chunks without data over an older file, and the call returned *)
C15_Witness ==
    /\ LoopCompleted
    /\ Len(windows) = 3
    /\ AllNoData
    /\ file0 = OldFile
    /\ file = OldFile

(* the timestamps present in any series of body b *)
AllTs(b) == UNION {Range(b[i].ts) : i \in 1..Len(b)}

(* C13: the frame get_timeseries builds is the full outer join of the
   per-key series on timestamp: one row per distinct timestamp of any
   series, a cell holding the key's value exactly where the key has a
   sample, rows in ascending timestamp order, for every order of keys and
   samples in the response *)
C13_FullOuterJoinAscending ==
    (pc = "returned" /\ body # <<>>) =>
        /\ Range(frame.index) = AllTs(body)
        /\ Len(frame.index) = Cardinality(AllTs(body))
        /\ \A i \in 1..Len(body) : \A t \in AllTs(body) :
              HasValue(frame, body[i].key, t) <=> t \in Range(body[i].ts)
        /\ \A m, n \in 1..Len(frame.index) :
              m < n => frame.index[m] < frame.index[n]

(* a call of save_timeseries is in progress or has just ended *)
InCall == pc \in {"keys", "loop", "done", "exit", "raised"}

(* C16: devices are exported one after another, and a transport failure in a
   request of one device's export ends the whole run (exit status 1): no
   step follows it, so no later device is exported, and the files of the
   devices after the current one are never created or modified *)
C16_FailureEndsRun ==
    /\ [](\A k \in 1..Len(windows) : windows[k].answer = "failed" => pc = "exit")
    /\ [][pc # "exit"]_vars
    /\ [][dev' = dev \/ (dev' = dev + 1 /\ pc \in {"driver", "done"})]_vars
    /\ [][/\ Len(files') = Len(files)
          /\ \A d \in 1..Len(files) : d # dev => files'[d] = files[d]]_vars
    /\ [](InCall => (dev \in 1..Len(files) /\ file0 = files[dev]))

(* the fetch of the first of two devices fails; the second device has an
   older file *)
C16_Witness ==
    /\ pc = "exit"
    /\ dev = 1
    /\ Len(files) = 2
    /\ files[2] = OldFile
    /\ Len(windows) = 1
    /\ windows[1].answer = "failed"

====
